---- MODULE Spec2Model ----
(***************************************************************************)
(* Subnet-Calculator.py: the CIDR engine (get_ip_class and                 *)
(* calculate_subnet_details) and the state of SubnetCalculatorGUI that     *)
(* decides whether a report may be saved.                                  *)
(*                                                                         *)
(* Representation.                                                         *)
(*  - A Python int is a pair <<hi, lo>> of base-65536 limbs, lo in         *)
(*    0..65535 and hi any integer (hi < 0 for a negative number), because  *)
(*    2^31 and 2^32 (the size of a /1 and a /0) do not fit a TLC integer.  *)
(*  - An IPv4 address is the two-limb form of its 32-bit integer, an IPv6  *)
(*    address the sequence of its eight 16-bit groups.                     *)
(*  - An input string is the record of its parts: surrounding whitespace,  *)
(*    the address groups as written, and the "/prefix" part when present.  *)
(*    InputText renders the string; ip_network parses the parts.           *)
(*  - An OrderedDict is the sequence of its <<key, value>> pairs in        *)
(*    insertion order; a value is Text(string) or Number(int).             *)
(***************************************************************************)
EXTENDS Integers, Sequences, FiniteSets, TLC

VARIABLES
    ip_with_cidr,   \* argument of the most recent calculate_subnet_details call
    details,        \* what that call returned
    called,         \* whether calculate_subnet_details has been called
    ip_cidr_var,    \* GUI: text of the entry field
    last_details,   \* GUI: self.last_details
    save_button,    \* GUI: state of the "Save to .txt" button
    dialog,         \* GUI: the message box shown by the latest handler
    report          \* GUI: the fields written by the latest successful save

vars == <<ip_with_cidr, details, called, ip_cidr_var, last_details,
          save_button, dialog, report>>

engine_vars == <<ip_with_cidr, details, called>>
gui_vars == <<ip_cidr_var, last_details, save_button, dialog, report>>

-----------------------------------------------------------------------------
(* Bounds of the input space.                                              *)

\* IPv4 inputs carry "/p" for p in 0..MaxPrefix4 (33 and above are invalid).
MaxPrefix4 == 34
\* IPv6 inputs carry "/p" for p in 0..MaxPrefix6 (129 and above are invalid).
MaxPrefix6 == 130

-----------------------------------------------------------------------------
(* Values of the result mapping.                                           *)

Text(s) == [str |-> s]
Number(n) == [int |-> n]

\* A small non-negative Python int.
PyInt(n) == <<n \div 65536, n % 65536>>

Norm(hi, lo) == <<hi + (lo \div 65536), lo % 65536>>
IntAdd(a, b) == Norm(a[1] + b[1], a[2] + b[2])
IntSub(a, b) == Norm(a[1] - b[1], a[2] - b[2])
IntLess(a, b) == a[1] < b[1] \/ (a[1] = b[1] /\ a[2] < b[2])

RECURSIVE DecStr(_)
\* str(n) for n >= 0: decimal digits by repeated division by ten.
DecStr(n) ==
    LET r == n[1] % 10
        t == r * 65536 + n[2]
        q == <<n[1] \div 10, t \div 10>>
    IN  IF q = <<0, 0>> THEN ToString(t % 10)
        ELSE DecStr(q) \o ToString(t % 10)

\* str(n) of a Python int.
PyStr(n) == IF n[1] < 0 THEN "-" \o DecStr(IntSub(<<0, 0>>, n)) ELSE DecStr(n)

-----------------------------------------------------------------------------
(* Bit operations on 16-bit limbs.                                         *)

RECURSIVE BitAnd(_, _)
BitAnd(a, b) ==
    IF a = 0 \/ b = 0 THEN 0
    ELSE (a % 2) * (b % 2) + 2 * BitAnd(a \div 2, b \div 2)

RECURSIVE BitOr(_, _)
BitOr(a, b) ==
    IF a = 0 THEN b
    ELSE IF b = 0 THEN a
    ELSE (IF a % 2 = 1 \/ b % 2 = 1 THEN 1 ELSE 0) + 2 * BitOr(a \div 2, b \div 2)

RECURSIVE BitXor(_, _)
BitXor(a, b) ==
    IF a = 0 THEN b
    ELSE IF b = 0 THEN a
    ELSE ((a + b) % 2) + 2 * BitXor(a \div 2, b \div 2)

\* x >> n for a value of Len(x) limbs, most significant first.
ShiftRight(x, n) ==
    [i \in 1..Len(x) |->
        LET k == i - (n \div 16)      \* limb that supplies the high part
            s == n % 16
        IN  (IF k >= 1 THEN x[k] \div (2^s) ELSE 0)
            + (IF k >= 2 /\ s > 0 THEN (x[k-1] % (2^s)) * (2^(16 - s)) ELSE 0)]

Xor(x, y) == [i \in 1..Len(x) |-> BitXor(x[i], y[i])]
And(x, y) == [i \in 1..Len(x) |-> BitAnd(x[i], y[i])]
Or(x, y) == [i \in 1..Len(x) |-> BitOr(x[i], y[i])]

\* _ALL_ONES of a family of w limbs.
ALL_ONES(w) == [i \in 1..w |-> 65535]

-----------------------------------------------------------------------------
(* Input strings.                                                          *)

\* An input string by its parts.  fam is "4" for groups joined by ".",
\* "6" for groups joined by ":", "x" for the word notanip, "" for no address
\* text at all; pfx is <<>> when the string has no "/" and <<p>> for "/p";
\* pad tells a blank on either side.  Forms of input the library also
\* accepts and this record cannot write are left out: "::" in an IPv6
\* address, an IPv4-mapped tail, a scope id, and a prefix given as a
\* dotted netmask or hostmask.
Input(pad, fam, groups, pfx) ==
    [pad |-> pad, fam |-> fam, groups |-> groups, pfx |-> pfx]

HexDigit ==
    <<"0", "1", "2", "3", "4", "5", "6", "7", "8", "9", "a", "b", "c", "d", "e", "f">>

RECURSIVE Hex(_)
\* '%x' % n
Hex(n) == IF n < 16 THEN HexDigit[n + 1] ELSE Hex(n \div 16) \o HexDigit[(n % 16) + 1]

RECURSIVE Join(_, _)
\* sep.join(parts)
Join(parts, sep) ==
    IF parts = <<>> THEN ""
    ELSE IF Len(parts) = 1 THEN parts[1]
    ELSE parts[1] \o sep \o Join(Tail(parts), sep)

\* The characters of the input string.
InputText(s) ==
    LET addr == CASE s.fam = "4" -> Join([i \in 1..Len(s.groups) |-> ToString(s.groups[i])], ".")
                  [] s.fam = "6" -> Join([i \in 1..Len(s.groups) |-> Hex(s.groups[i])], ":")
                  [] s.fam = "x" -> "notanip"
                  [] OTHER -> ""
        pfx == IF s.pfx = <<>> THEN "" ELSE "/" \o ToString(s.pfx[1])
        blank == IF s.pad THEN " " ELSE ""
    IN  blank \o addr \o pfx \o blank

\* str.strip()
strip(s) == [s EXCEPT !.pad = FALSE]

FirstOctets == {0, 1, 10, 126, 127, 128, 172, 191, 192, 200, 223, 224, 239, 240, 255, 256, 999}

Inputs4 ==
    { Input(FALSE, "4", <<a, b, 50, d>>, pfx) :
        a \in FirstOctets, b \in {0, 168}, d \in {0, 1, 5, 255, 256},
        pfx \in {<<>>} \cup {<<p>> : p \in 0..MaxPrefix4} }

Groups6 ==
    { <<8193, 3512, 0, 0, 0, 0, 0, 1>>,             \* 2001:db8::1
      <<0, 0, 0, 0, 0, 0, 0, 0>>,                   \* ::
      <<65535, 65535, 65535, 65535, 65535, 65535, 65535, 65535>>,
      <<1, 0, 0, 4, 0, 0, 0, 8>>,
      <<1, 2, 3, 4, 5, 6, 7, 65536>>,               \* a group of five hex digits
      <<1, 2, 3, 4, 5, 6, 7>> }                     \* seven groups, no "::"

Inputs6 ==
    { Input(FALSE, "6", g, pfx) :
        g \in Groups6, pfx \in {<<>>} \cup {<<p>> : p \in 0..MaxPrefix6} }

InputsOther ==
    { Input(FALSE, "x", <<>>, <<24>>),              \* "notanip/24"
      Input(FALSE, "", <<>>, <<>>),                 \* ""
      Input(TRUE, "", <<>>, <<>>),                  \* blanks only
      Input(FALSE, "4", <<1, 2, 3>>, <<8>>),        \* three octets
      Input(FALSE, "4", <<1, 2, 3, 4, 5>>, <<8>>),  \* five octets
      Input(TRUE, "4", <<10, 0, 0, 0>>, <<8>>),     \* " 10.0.0.0/8 "
      Input(TRUE, "6", <<8193, 3512, 0, 0, 0, 0, 0, 1>>, <<64>>) }

\* Every string the engine is called with.
Inputs == Inputs4 \cup Inputs6 \cup InputsOther

-----------------------------------------------------------------------------
(* ipaddress.ip_network(address, strict=False), as the engine uses it.     *)

\* Variant: a string with no "/" part is refused.
prefix_required(pfx, max_prefixlen) ==
    IF pfx # <<>> /\ pfx[1] <= max_prefixlen THEN <<pfx[1]>> ELSE <<>>

\* The prefix length of a network string: the family's maximum when the
\* string has no "/" part, the number after "/" when it is in range, and
\* <<>> (NetmaskValueError) otherwise.
prefix_from_string(pfx, max_prefixlen) ==
    IF pfx = <<>> THEN <<max_prefixlen>>
    ELSE IF pfx[1] <= max_prefixlen THEN <<pfx[1]>>
    ELSE <<>>

\* The integer of an address string: <<>> (AddressValueError) unless the
\* text is exactly `count` groups, each at most `top`, with no blanks.
ip_int_from_string(s, fam, count, top) ==
    IF s.pad \/ s.fam # fam \/ Len(s.groups) # count
       \/ (\E i \in 1..Len(s.groups) : s.groups[i] > top)
    THEN <<>>
    ELSE IF fam = "4"
         THEN << <<s.groups[1] * 256 + s.groups[2], s.groups[3] * 256 + s.groups[4]>> >>
         ELSE <<s.groups>>

\* _make_netmask: _ALL_ONES ^ (_ALL_ONES >> prefixlen)
make_netmask(w, prefixlen) == Xor(ALL_ONES(w), ShiftRight(ALL_ONES(w), prefixlen))

\* Variant: the supplied address is kept as the network address.
network_address_unmasked(address, netmask) == address

\* strict=False: the host bits of the supplied address are masked away.
network_address_of(address, netmask) == And(address, netmask)

\* IPv4Network(s, strict=False) / IPv6Network(s, strict=False); <<>> when
\* the constructor raises.
Network(s, version, fam, w, count, top, max_prefixlen) ==
    LET addr == ip_int_from_string(s, fam, count, top)
        plen == prefix_from_string(s.pfx, max_prefixlen)
    IN  IF addr = <<>> \/ plen = <<>> THEN <<>>
        ELSE LET mask == make_netmask(w, plen[1])
             IN  << [version |-> version,
                     prefixlen |-> plen[1],
                     netmask |-> mask,
                     network_address |-> network_address_of(addr[1], mask)] >>

\* ip_network tries IPv4Network, then IPv6Network, then raises ValueError.
ip_network(s) ==
    LET v4 == Network(s, 4, "4", 2, 4, 255, 32)
        v6 == Network(s, 6, "6", 8, 8, 65535, 128)
    IN  IF v4 # <<>> THEN [ok |-> TRUE, network |-> v4[1]]
        ELSE IF v6 # <<>> THEN [ok |-> TRUE, network |-> v6[1]]
        ELSE [ok |-> FALSE,
              error |-> "'" \o InputText(s) \o "' does not appear to be an IPv4 or IPv6 network"]

\* network.hostmask and network.broadcast_address
hostmask(network) == Xor(network.netmask, ALL_ONES(Len(network.netmask)))
broadcast_address(network) == Or(network.network_address, hostmask(network))

\* network.num_addresses: int(broadcast_address) - int(network_address) + 1
num_addresses(network) ==
    IntAdd(IntSub(broadcast_address(network), network.network_address), PyInt(1))

\* network.hosts() of a network shorter than /31:
\* range(network + 1, broadcast) as <<first, stop>>.
hosts(network) ==
    <<IntAdd(network.network_address, PyInt(1)), broadcast_address(network)>>

\* The "."-separated groups of str(IPv4Address).
DottedGroups(a) == <<a[1] \div 256, a[1] % 256, a[2] \div 256, a[2] % 256>>

\* str(IPv4Address)
IPv4Str(a) == Join([i \in 1..4 |-> ToString(DottedGroups(a)[i])], ".")

RECURSIVE ZeroRun(_, _)
\* Length of the run of zero groups that starts at group i.
ZeroRun(g, i) == IF i > Len(g) \/ g[i] # 0 THEN 0 ELSE 1 + ZeroRun(g, i + 1)

\* str(IPv6Address): the first longest run of two or more zero groups is
\* written "::".
IPv6Str(g) ==
    LET best == CHOOSE i \in 1..8 :
                    /\ \A j \in 1..8 : ZeroRun(g, j) <= ZeroRun(g, i)
                    /\ \A j \in 1..(i - 1) : ZeroRun(g, j) < ZeroRun(g, i)
        len == ZeroRun(g, best)
        hex == [i \in 1..8 |-> Hex(g[i])]
    IN  IF len > 1
        THEN Join(SubSeq(hex, 1, best - 1), ":") \o "::"
                 \o Join(SubSeq(hex, best + len, 8), ":")
        ELSE Join(hex, ":")

AddrStr(network, a) == IF network.version = 4 THEN IPv4Str(a) ELSE IPv6Str(a)

-----------------------------------------------------------------------------
(* get_ip_class and calculate_subnet_details.                              *)

\* get_ip_class(ip_address_str); the argument is the string by its
\* "."-separated groups, so groups[1] is int(ip_address_str.split('.')[0]).
get_ip_class(groups) ==
    IF groups = <<>> THEN "N/A"
    ELSE LET first_octet == groups[1]
         IN  IF 1 <= first_octet /\ first_octet <= 126 THEN "Class A"
             ELSE IF 128 <= first_octet /\ first_octet <= 191 THEN "Class B"
             ELSE IF 192 <= first_octet /\ first_octet <= 223 THEN "Class C"
             ELSE IF 224 <= first_octet /\ first_octet <= 239 THEN "Class D (Multicast)"
             ELSE IF 240 <= first_octet /\ first_octet <= 255 THEN "Class E (Reserved)"
             ELSE "Special/Reserved"

\* The string whose class the engine asks for: str(network.network_address).
class_argument(s, network) == DottedGroups(network.network_address)

\* Fields written before the family-specific block.
common_details(s, network) ==
    << <<"Input IP/CIDR", Text(InputText(s))>>,
       <<"IP Version", Text("IPv" \o ToString(network.version))>>,
       <<"Network ID", Text(AddrStr(network, network.network_address))>> >>
    \o (IF network.version = 4
        THEN << <<"Historical Class", Text(get_ip_class(class_argument(s, network)))>> >>
        ELSE <<>>)
    \o << <<"CIDR Prefix", Text("/" \o ToString(network.prefixlen))>> >>

\* Variant: no special case for /31 and /32.
usable_hosts_no_special_case(network) == IntSub(num_addresses(network), PyInt(2))

\* usable_hosts of the three-way branch on the prefix length.
usable_hosts(network) ==
    IF network.prefixlen = 31 THEN PyInt(2)
    ELSE IF network.prefixlen = 32 THEN PyInt(1)
    ELSE IntSub(num_addresses(network), PyInt(2))

\* Variant: the /31 branch forgets the + 1.
broadcast_text_p2p_same(network) ==
    IF network.prefixlen = 31 \/ network.prefixlen = 32
    THEN IPv4Str(network.network_address)
    ELSE IPv4Str(broadcast_address(network))

\* broadcast_address of the three-way branch on the prefix length.
broadcast_text(network) ==
    IF network.prefixlen = 31
    THEN IPv4Str(IntAdd(network.network_address, PyInt(1)))
    ELSE IF network.prefixlen = 32 THEN IPv4Str(network.network_address)
    ELSE IPv4Str(broadcast_address(network))

\* Variant: last_host is the broadcast address itself.
host_range_to_broadcast(network) ==
    IF network.prefixlen = 31
    THEN IPv4Str(network.network_address) \o " - "
             \o IPv4Str(IntAdd(network.network_address, PyInt(1))) \o " (RFC 3021 P2P)"
    ELSE IF network.prefixlen = 32 THEN IPv4Str(network.network_address)
    ELSE IPv4Str(hosts(network)[1]) \o " - " \o IPv4Str(broadcast_address(network))

\* host_range of the three-way branch on the prefix length.
host_range(network) ==
    IF network.prefixlen = 31
    THEN IPv4Str(network.network_address) \o " - " \o broadcast_text(network)
             \o " (RFC 3021 P2P)"
    ELSE IF network.prefixlen = 32 THEN IPv4Str(network.network_address)
    ELSE LET h == hosts(network)
         IN  IF IntLess(h[1], h[2])
             THEN LET first_host == h[1]
                      last_host == IntSub(broadcast_address(network), PyInt(1))
                  IN  IPv4Str(first_host) \o " - " \o IPv4Str(last_host)
             ELSE "None"      \* StopIteration

\* details["Subnet Bits (s)"]
subnet_bits(network) ==
    IF network.prefixlen > 24 THEN network.prefixlen % 8 ELSE network.prefixlen

\* details["Usable Host Count"] of an IPv4 network.
usable_host_count(network) ==
    IF network.prefixlen = 31
    THEN Text(PyStr(usable_hosts(network)) \o " (RFC 3021 P2P)")
    ELSE IF network.prefixlen = 32
    THEN Text(PyStr(usable_hosts(network)) \o " (Single Address)")
    ELSE Number(usable_hosts(network))

\* The IPv4 block of the result.
ipv4_details(network) ==
    << <<"Subnet Mask", Text(IPv4Str(network.netmask))>>,
       <<"Host Bits (h)", Number(PyInt(32 - network.prefixlen))>>,
       <<"Subnet Bits (s)", Number(PyInt(subnet_bits(network)))>>,
       <<"Total IP Addresses", Number(num_addresses(network))>>,
       <<"Usable Host Count", usable_host_count(network)>>,
       <<"Broadcast Address", Text(broadcast_text(network))>>,
       <<"Usable Host Range", Text(host_range(network))>> >>

\* Variant: the note is added above 64 host bits only.
ipv6_total_above_64(host_bits) ==
    IF host_bits > 64
    THEN "2^" \o ToString(host_bits) \o " (Standard /64 Subnet)"
    ELSE "2^" \o ToString(host_bits)

\* details["Total IP Addresses"] of an IPv6 network.
ipv6_total(host_bits) ==
    IF host_bits >= 64
    THEN "2^" \o ToString(host_bits) \o " (Standard /64 Subnet)"
    ELSE "2^" \o ToString(host_bits)

\* details["Usable Host Count"] of an IPv6 network.
ipv6_usable(host_bits) ==
    IF host_bits >= 64 THEN "Effectively infinite" ELSE "2^" \o ToString(host_bits)

\* Variant: the subnet mask note is written after the usable host count.
ipv6_details_mask_later(network) ==
    LET host_bits == 128 - network.prefixlen
    IN  << <<"Host Bits", Number(PyInt(host_bits))>>,
           <<"Total IP Addresses", Text(ipv6_total(host_bits))>>,
           <<"Usable Host Count", Text(ipv6_usable(host_bits))>>,
           <<"Subnet Mask Concept", Text("Not Applicable (N/A)")>>,
           <<"Broadcast Address Concept", Text("Not Applicable (Uses Multicast)")>>,
           <<"Host Range Concept", Text("The entire address space after the prefix.")>> >>

\* The IPv6 block of the result.
ipv6_details(network) ==
    LET host_bits == 128 - network.prefixlen
    IN  << <<"Subnet Mask Concept", Text("Not Applicable (N/A)")>>,
           <<"Host Bits", Number(PyInt(host_bits))>>,
           <<"Total IP Addresses", Text(ipv6_total(host_bits))>>,
           <<"Usable Host Count", Text(ipv6_usable(host_bits))>>,
           <<"Broadcast Address Concept", Text("Not Applicable (Uses Multicast)")>>,
           <<"Host Range Concept", Text("The entire address space after the prefix.")>> >>

\* Variant: the error is added to the fields filled in so far.
error_result_partial(s, e) ==
    << <<"Input IP/CIDR", Text(InputText(s))>>,
       <<"Error", Text("Invalid input: " \o e)>> >>

\* except ValueError as e: return {"Error": f"Invalid input: {e}"}
error_result(s, e) == << <<"Error", Text("Invalid input: " \o e)>> >>

calculate_subnet_details(s) ==
    LET parsed == ip_network(s)
    IN  IF ~parsed.ok THEN error_result(s, parsed.error)
        ELSE LET network == parsed.network
             IN  common_details(s, network)
                 \o (IF network.version = 4 THEN ipv4_details(network)
                     ELSE ipv6_details(network))

\* Dictionary access.
Keys(d) == [i \in 1..Len(d) |-> d[i][1]]
Has(d, key) == \E i \in 1..Len(d) : d[i][1] = key
Get(d, key) == d[CHOOSE i \in 1..Len(d) : d[i][1] = key][2]

-----------------------------------------------------------------------------
(* The engine called once on an arbitrary input string.                    *)

\* The GUI before its window exists.
NoGUI ==
    /\ ip_cidr_var = Input(FALSE, "", <<>>, <<>>)
    /\ last_details = <<>>
    /\ save_button = "disabled"
    /\ dialog = "none"
    /\ report = <<>>

Init ==
    /\ ip_with_cidr \in Inputs
    /\ details = <<>>
    /\ called = FALSE
    /\ NoGUI

Calculate ==
    /\ ~called
    /\ details' = calculate_subnet_details(ip_with_cidr)
    /\ called' = TRUE
    /\ UNCHANGED <<ip_with_cidr, gui_vars>>

Next == Calculate

Spec == Init /\ [][Next]_vars

-----------------------------------------------------------------------------
(* SubnetCalculatorGUI: the entry field, last_details and the save button. *)

\* The entry's text when the window is built.
DefaultInput == Input(FALSE, "4", <<192, 168, 50, 1>>, <<8>>)

\* What the user may type into the entry field.
GuiInputs ==
    { DefaultInput,
      Input(FALSE, "4", <<192, 168, 50, 1>>, <<24>>),
      Input(FALSE, "4", <<10, 0, 50, 0>>, <<31>>),
      Input(FALSE, "4", <<10, 0, 50, 5>>, <<32>>),
      Input(FALSE, "4", <<200, 0, 50, 1>>, <<1>>),
      Input(FALSE, "4", <<10, 0, 50, 1>>, <<>>),
      Input(TRUE, "4", <<10, 0, 0, 0>>, <<8>>),
      Input(FALSE, "4", <<999, 0, 50, 1>>, <<24>>),
      Input(FALSE, "4", <<10, 0, 50, 1>>, <<33>>),
      Input(FALSE, "6", <<8193, 3512, 0, 0, 0, 0, 0, 1>>, <<64>>),
      Input(FALSE, "6", <<8193, 3512, 0, 0, 0, 0, 0, 1>>, <<129>>),
      Input(FALSE, "x", <<>>, <<24>>),
      Input(FALSE, "", <<>>, <<>>),
      Input(TRUE, "", <<>>, <<>>) }

\* Variant: the result is stored without the test for "Error".
calculation_outcome_unchecked(d) ==
    [last_details |-> d, save_button |-> "normal", dialog |-> "none"]

\* The part of perform_calculation after the engine returned d: what it
\* stores in last_details, the state it gives the save button, and the
\* message box it shows.
calculation_outcome(d) ==
    IF Has(d, "Error")
    THEN [last_details |-> <<>>, save_button |-> "disabled",
          dialog |-> "showerror: " \o Get(d, "Error").str]
    ELSE [last_details |-> d, save_button |-> "normal", dialog |-> "none"]

\* str(value) of a value of the result mapping.
ValueStr(v) == IF "str" \in DOMAIN v THEN v.str ELSE PyStr(v.int)

RECURSIVE Blanks(_)
Blanks(n) == IF n <= 0 THEN "" ELSE " " \o Blanks(n - 1)

\* key.ljust(width)
ljust(key, width) == key \o Blanks(width - Len(key))

\* The lines save_results_to_file writes for the fields of d (the title,
\* the time stamp and the rule above them do not depend on d).
report_content(d) ==
    LET max_key_len == CHOOSE n \in {Len(d[i][1]) : i \in 1..Len(d)} :
                           \A i \in 1..Len(d) : Len(d[i][1]) <= n
    IN  [i \in 1..Len(d) |-> ljust(d[i][1], max_key_len) \o " : " \o ValueStr(d[i][2])]

\* The user edits the entry field.
TypeInput(s) ==
    /\ ip_cidr_var' = s
    /\ UNCHANGED <<engine_vars, last_details, save_button, dialog, report>>

\* The "Calculate Subnet Details" button.
perform_calculation ==
    LET ip_cidr == strip(ip_cidr_var)
        d == calculate_subnet_details(ip_cidr)
        out == calculation_outcome(d)
    IN  /\ ip_with_cidr' = ip_cidr
        /\ details' = d
        /\ called' = TRUE
        /\ last_details' = out.last_details
        /\ save_button' = out.save_button
        /\ dialog' = out.dialog
        /\ UNCHANGED <<ip_cidr_var, report>>

\* The "Save to .txt" button, which Tk runs only while the button is
\* enabled.  chosen is what the file dialog and open() yield: "cancel" (no
\* path), "written", or "failed" (open or write raised).
save_results_to_file(chosen) ==
    /\ save_button = "normal"
    /\ IF last_details = <<>>
       THEN /\ dialog' = "showwarning: No subnet calculation data available to save."
            /\ UNCHANGED report
       ELSE IF chosen = "cancel"
       THEN UNCHANGED <<dialog, report>>
       ELSE IF chosen = "written"
       THEN /\ report' = report_content(last_details)
            /\ dialog' = "showinfo: Results successfully saved"
       ELSE /\ dialog' = "showerror: Could not save file"
            /\ UNCHANGED report
    /\ UNCHANGED <<engine_vars, ip_cidr_var, last_details, save_button>>

\* The window as __init__ leaves it: the fields are set, the save button is
\* created disabled, and perform_calculation has run once on the default
\* text.
InitGUI ==
    LET d == calculate_subnet_details(strip(DefaultInput))
        out == calculation_outcome(d)
    IN  /\ ip_cidr_var = DefaultInput
        /\ ip_with_cidr = strip(DefaultInput)
        /\ details = d
        /\ called = TRUE
        /\ last_details = out.last_details
        /\ save_button = out.save_button
        /\ dialog = out.dialog
        /\ report = <<>>

NextGUI ==
    \/ \E s \in GuiInputs : TypeInput(s)
    \/ perform_calculation
    \/ \E chosen \in {"cancel", "written", "failed"} : save_results_to_file(chosen)

SpecGUI == InitGUI /\ [][NextGUI]_vars

-----------------------------------------------------------------------------
(* Reference arithmetic for the properties below, on the decimal octets of *)
(* the input and without the engine's bit operations.                      *)

\* s is a.b.c.d/p with octets in 0..255 and 0 <= p <= 32.
ValidIPv4(s) ==
    /\ ~s.pad /\ s.fam = "4" /\ Len(s.groups) = 4
    /\ \A i \in 1..4 : s.groups[i] \in 0..255
    /\ s.pfx # <<>> /\ s.pfx[1] \in 0..32

\* s is a full eight-group IPv6 address followed by /p, 0 <= p <= 128.
ValidIPv6(s) ==
    /\ ~s.pad /\ s.fam = "6" /\ Len(s.groups) = 8
    /\ \A i \in 1..8 : s.groups[i] \in 0..65535
    /\ s.pfx # <<>> /\ s.pfx[1] \in 0..128

\* s is a well-formed IPv4 or IPv6 address with no "/prefix" part.
AddressOnly(s) ==
    /\ ~s.pad /\ s.pfx = <<>>
    /\ \/ s.fam = "4" /\ Len(s.groups) = 4 /\ \A i \in 1..4 : s.groups[i] \in 0..255
       \/ s.fam = "6" /\ Len(s.groups) = 8 /\ \A i \in 1..8 : s.groups[i] \in 0..65535

\* Number of host bits that fall into octet i (1..4) under prefix p.
HostBitsIn(i, p) ==
    LET kept == p - 8 * (i - 1)
    IN  IF kept >= 8 THEN 0 ELSE IF kept <= 0 THEN 8 ELSE 8 - kept

\* address AND mask(p, 32), octet by octet.
ExpectedNetwork(s) ==
    [i \in 1..4 |-> s.groups[i] - (s.groups[i] % (2^HostBitsIn(i, s.pfx[1])))]

\* network OR NOT mask(p, 32), octet by octet.
ExpectedAllOnes(s) ==
    [i \in 1..4 |-> ExpectedNetwork(s)[i] + (2^HostBitsIn(i, s.pfx[1])) - 1]

Dotted(o) == ToString(o[1]) \o "." \o ToString(o[2]) \o "." \o ToString(o[3])
                 \o "." \o ToString(o[4])

\* o + k on the last octet (the uses below never carry or borrow).
LastOctetPlus(o, k) == [o EXCEPT ![4] = o[4] + k]

\* o1 <= o2 as 32-bit numbers.
OctetsLeq(o1, o2) ==
    \/ o1 = o2
    \/ \E i \in 1..4 : o1[i] < o2[i] /\ \A j \in 1..(i - 1) : o1[j] = o2[j]

\* 2^h - 2 for 2 <= h <= 32, as a two-limb number.
Pow2Minus2(h) == IF h <= 16 THEN <<0, (2^h) - 2>> ELSE <<(2^(h - 16)) - 1, 65534>>

\* The class of a first octet.
ClassOfOctet(o) ==
    CASE o \in 1..126 -> "Class A"
      [] o \in 128..191 -> "Class B"
      [] o \in 192..223 -> "Class C"
      [] o \in 224..239 -> "Class D (Multicast)"
      [] o \in 240..255 -> "Class E (Reserved)"
      [] OTHER -> "Special/Reserved"

IPv4Keys ==
    <<"Input IP/CIDR", "IP Version", "Network ID", "Historical Class", "CIDR Prefix",
      "Subnet Mask", "Host Bits (h)", "Subnet Bits (s)", "Total IP Addresses",
      "Usable Host Count", "Broadcast Address", "Usable Host Range">>

\* The IPv6 order the code produces.
IPv6Keys ==
    <<"Input IP/CIDR", "IP Version", "Network ID", "CIDR Prefix",
      "Subnet Mask Concept", "Host Bits", "Total IP Addresses", "Usable Host Count",
      "Broadcast Address Concept", "Host Range Concept">>

\* The IPv6 order of the specification's tables: Host Bits, Total IP
\* Addresses, Usable Host Count, then the three concept fields.
IPv6KeysTableOrder ==
    <<"Input IP/CIDR", "IP Version", "Network ID", "CIDR Prefix",
      "Host Bits", "Total IP Addresses", "Usable Host Count",
      "Subnet Mask Concept", "Broadcast Address Concept", "Host Range Concept">>

Succeeded(d) == ~Has(d, "Error")

-----------------------------------------------------------------------------
(* Properties of the engine, checked under Spec.                           *)

\* C1: for every valid IPv4 input a.b.c.d/p, host bits zero or not, the
\* call succeeds and "Network ID" is the dotted quad of address AND
\* mask(p, 32): the first p bits of the address, every later bit zero.
C1_NetworkIdIsMaskedAddress ==
    (called /\ ValidIPv4(ip_with_cidr)) =>
        /\ Succeeded(details)
        /\ Get(details, "Network ID") = Text(Dotted(ExpectedNetwork(ip_with_cidr)))
        /\ \A i \in 1..4 :
              ExpectedNetwork(ip_with_cidr)[i] % (2^HostBitsIn(i, ip_with_cidr.pfx[1])) = 0

\* C1 witness: 192.168.50.1/24, whose host bits are not zero, gave
\* Network ID 192.168.50.0.
C1_Witness ==
    /\ called
    /\ ip_with_cidr = Input(FALSE, "4", <<192, 168, 50, 1>>, <<24>>)
    /\ Succeeded(details)
    /\ Get(details, "Network ID") = Text("192.168.50.0")

\* C2: for every valid IPv4 input, "Broadcast Address" is network + 1 for a
\* /31, the network address for a /32, and otherwise the network address
\* with all 32 - p host bits set.
C2_BroadcastAddress ==
    (called /\ ValidIPv4(ip_with_cidr)) =>
        LET p == ip_with_cidr.pfx[1]
            net == ExpectedNetwork(ip_with_cidr)
        IN  /\ Succeeded(details)
            /\ Get(details, "Broadcast Address") =
                  Text(Dotted(IF p = 31 THEN LastOctetPlus(net, 1)
                              ELSE IF p = 32 THEN net
                              ELSE ExpectedAllOnes(ip_with_cidr)))

\* C2 witness: a /31 whose broadcast address is the network address + 1.
C2_Witness ==
    /\ called
    /\ ip_with_cidr = Input(FALSE, "4", <<10, 0, 50, 1>>, <<31>>)
    /\ Succeeded(details)
    /\ Get(details, "Network ID") = Text("10.0.50.0")
    /\ Get(details, "Broadcast Address") = Text("10.0.50.1")

\* C3: for every valid IPv4 input, "Usable Host Count" is the text
\* "2 (RFC 3021 P2P)" for a /31, the text "1 (Single Address)" for a /32,
\* and for p in 0..30 the integer Total IP Addresses - 2 = 2^(32 - p) - 2,
\* which is at least 2.
C3_UsableHostCount ==
    (called /\ ValidIPv4(ip_with_cidr)) =>
        LET p == ip_with_cidr.pfx[1]
            count == Get(details, "Usable Host Count")
            total == Get(details, "Total IP Addresses")
        IN  /\ Succeeded(details)
            /\ p = 31 => count = Text("2 (RFC 3021 P2P)")
            /\ p = 32 => count = Text("1 (Single Address)")
            /\ p <= 30 =>
                  /\ DOMAIN count = {"int"}
                  /\ DOMAIN total = {"int"}
                  /\ count.int = IntSub(total.int, <<0, 2>>)
                  /\ count.int = Pow2Minus2(32 - p)
                  /\ ~IntLess(count.int, <<0, 2>>)

\* C3 witness: a /0, whose usable host count is 2^32 - 2 = 65535 * 65536 + 65534.
C3_Witness ==
    /\ called
    /\ ValidIPv4(ip_with_cidr)
    /\ ip_with_cidr.pfx = <<0>>
    /\ Succeeded(details)
    /\ Get(details, "Usable Host Count") = Number(<<65535, 65534>>)

\* C4: for every valid IPv4 input with p <= 30, "Usable Host Range" is
\* "(network + 1) - (broadcast - 1)" with the first address not above the
\* last, and never "None"; for a /32 it is the single address and for a
\* /31 "network - (network + 1) (RFC 3021 P2P)".
C4_UsableHostRange ==
    (called /\ ValidIPv4(ip_with_cidr)) =>
        LET p == ip_with_cidr.pfx[1]
            net == ExpectedNetwork(ip_with_cidr)
            first == LastOctetPlus(net, 1)
            last == LastOctetPlus(ExpectedAllOnes(ip_with_cidr), -1)
            range == Get(details, "Usable Host Range")
        IN  /\ Succeeded(details)
            /\ range # Text("None")
            /\ p <= 30 => /\ range = Text(Dotted(first) \o " - " \o Dotted(last))
                          /\ OctetsLeq(first, last)
            /\ p = 31 => range = Text(Dotted(net) \o " - " \o Dotted(first)
                                          \o " (RFC 3021 P2P)")
            /\ p = 32 => range = Text(Dotted(net))

\* C4 witness: 192.168.50.1/24 gave the range 192.168.50.1 - 192.168.50.254.
C4_Witness ==
    /\ called
    /\ ip_with_cidr = Input(FALSE, "4", <<192, 168, 50, 1>>, <<24>>)
    /\ Succeeded(details)
    /\ Get(details, "Usable Host Range") = Text("192.168.50.1 - 192.168.50.254")

\* s fails validation: blanks around it, no address at all, a word that is
\* no address, a wrong number of groups, an IPv4 octet above 255, an IPv6
\* group above ffff, or a prefix above 32 (IPv4) or 128 (IPv6).
InvalidInput(s) ==
    \/ s.pad
    \/ s.fam \in {"x", ""}
    \/ s.fam = "4" /\ (Len(s.groups) # 4 \/ \E i \in 1..Len(s.groups) : s.groups[i] > 255)
    \/ s.fam = "4" /\ s.pfx # <<>> /\ s.pfx[1] > 32
    \/ s.fam = "6" /\ (Len(s.groups) # 8 \/ \E i \in 1..Len(s.groups) : s.groups[i] > 65535)
    \/ s.fam = "6" /\ s.pfx # <<>> /\ s.pfx[1] > 128

\* C5: for every input string that fails validation the result carries the
\* error message and no other field; every result is either the complete
\* field list of its family or the error alone.
C5_ErrorResultHasNoFields ==
    called =>
        /\ InvalidInput(ip_with_cidr) =>
              details = << <<"Error",
                             Text("Invalid input: '" \o InputText(ip_with_cidr)
                                  \o "' does not appear to be an IPv4 or IPv6 network")>> >>
        /\ Keys(details) \in {<<"Error">>, IPv4Keys, IPv6Keys}

\* C5 witness: 999.0.50.1/24 was refused with the error alone.
C5_Witness ==
    /\ called
    /\ ip_with_cidr = Input(FALSE, "4", <<999, 0, 50, 1>>, <<24>>)
    /\ Keys(details) = <<"Error">>

\* C6: for every valid IPv4 input, "Historical Class" is the class of the
\* first octet of the address as supplied (before masking): 1-126 A,
\* 128-191 B, 192-223 C, 224-239 D, 240-255 E, 0 and 127 Special/Reserved;
\* also when the prefix is shorter than 8 and masking changes that octet.
C6_ClassOfSuppliedAddress ==
    (called /\ ValidIPv4(ip_with_cidr)) =>
        /\ Succeeded(details)
        /\ Get(details, "Historical Class") = Text(ClassOfOctet(ip_with_cidr.groups[1]))

\* C7 as stated: a well-formed address with no "/prefix" part is refused.
C7_MissingPrefixRejected ==
    (called /\ AddressOnly(ip_with_cidr)) => Has(details, "Error")

\* C7 as amended: a well-formed address with no "/prefix" part is accepted
\* with the family's maximum prefix (32 or 128): the result is complete, its
\* CIDR Prefix is "/32" or "/128" and, for IPv4, its Network ID, Broadcast
\* Address and Usable Host Range are the address itself.
C7_MissingPrefixDefaultsToHost ==
    (called /\ AddressOnly(ip_with_cidr)) =>
        /\ Succeeded(details)
        /\ ip_with_cidr.fam = "4" =>
              /\ Keys(details) = IPv4Keys
              /\ Get(details, "CIDR Prefix") = Text("/32")
              /\ Get(details, "Network ID") = Text(Dotted(ip_with_cidr.groups))
              /\ Get(details, "Broadcast Address") = Text(Dotted(ip_with_cidr.groups))
              /\ Get(details, "Usable Host Range") = Text(Dotted(ip_with_cidr.groups))
        /\ ip_with_cidr.fam = "6" =>
              /\ Keys(details) = IPv6Keys
              /\ Get(details, "CIDR Prefix") = Text("/128")
              /\ Get(details, "Host Bits") = Number(<<0, 0>>)

\* C7 witness: "10.0.50.1" was accepted as a /32.
C7_Witness ==
    /\ called
    /\ ip_with_cidr = Input(FALSE, "4", <<10, 0, 50, 1>>, <<>>)
    /\ Succeeded(details)
    /\ Get(details, "CIDR Prefix") = Text("/32")

\* C8 as stated: for every valid IPv6 input, "Total IP Addresses" is exactly
\* "2^<host_bits>", host_bits = 128 - p, with nothing appended.
C8_TotalIsBarePower ==
    (called /\ ValidIPv6(ip_with_cidr)) =>
        /\ Succeeded(details)
        /\ Get(details, "Total IP Addresses") =
              Text("2^" \o ToString(128 - ip_with_cidr.pfx[1]))

\* C8 as amended: for every valid IPv6 input, "Total IP Addresses" is the
\* text "2^<host_bits>", host_bits = 128 - p, alone when host_bits < 64 and
\* followed by " (Standard /64 Subnet)" when host_bits >= 64.
C8_TotalIsPowerWithNote ==
    (called /\ ValidIPv6(ip_with_cidr)) =>
        LET host_bits == 128 - ip_with_cidr.pfx[1]
            power == "2^" \o ToString(host_bits)
        IN  /\ Succeeded(details)
            /\ host_bits < 64 => Get(details, "Total IP Addresses") = Text(power)
            /\ host_bits >= 64 =>
                  Get(details, "Total IP Addresses") =
                      Text(power \o " (Standard /64 Subnet)")

\* C8 witness: a /64 (64 host bits) gave the power with the note.
C8_Witness ==
    /\ called
    /\ ValidIPv6(ip_with_cidr)
    /\ ip_with_cidr.pfx = <<64>>
    /\ Get(details, "Total IP Addresses") = Text("2^64 (Standard /64 Subnet)")

\* C10 as stated: every successful result lists its fields in one order per
\* family; for IPv6 the family block is Host Bits, Total IP Addresses,
\* Usable Host Count, then the three concept fields.
C10_FieldOrderOfTables ==
    (called /\ Succeeded(details)) =>
        /\ Get(details, "IP Version") = Text("IPv4") => Keys(details) = IPv4Keys
        /\ Get(details, "IP Version") = Text("IPv6") => Keys(details) = IPv6KeysTableOrder

\* C10 as amended: every successful result lists its fields in one order
\* per family, whatever the input; the IPv4 order is as stated, and the
\* IPv6 family block is Subnet Mask Concept, Host Bits, Total IP Addresses,
\* Usable Host Count, Broadcast Address Concept, Host Range Concept.
C10_FieldOrderOfCode ==
    (called /\ Succeeded(details)) =>
        /\ Get(details, "IP Version") \in {Text("IPv4"), Text("IPv6")}
        /\ Get(details, "IP Version") = Text("IPv4") => Keys(details) = IPv4Keys
        /\ Get(details, "IP Version") = Text("IPv6") => Keys(details) = IPv6Keys

\* C10 witness: an IPv6 result, whose fifth field is Subnet Mask Concept.
C10_Witness ==
    /\ called
    /\ ValidIPv6(ip_with_cidr)
    /\ Succeeded(details)
    /\ Keys(details)[5] = "Subnet Mask Concept"

-----------------------------------------------------------------------------
(* Property of the GUI, checked under SpecGUI.                             *)

\* The save button is enabled exactly when last_details is the complete
\* result of the most recent calculation and that calculation succeeded; a
\* failed calculation has emptied last_details and disabled the button.
C9_ButtonMatchesLastResult ==
    /\ (save_button = "normal") <=>
          /\ last_details # <<>>
          /\ last_details = details
          /\ Succeeded(details)
          /\ Keys(details) \in {IPv4Keys, IPv6Keys}
    /\ Has(details, "Error") => (last_details = <<>> /\ save_button = "disabled")
    /\ save_button \in {"normal", "disabled"}

\* A step that writes a report writes the fields of the most recent
\* calculation, which succeeded.
C9_ReportIsCurrent ==
    (report' # report) =>
        /\ Succeeded(details)
        /\ Keys(details) \in {IPv4Keys, IPv6Keys}
        /\ LET width == IF Keys(details) = IPv4Keys THEN 18 ELSE 25
           IN  report' = [i \in 1..Len(details) |->
                             ljust(details[i][1], width) \o " : "
                                 \o ValueStr(details[i][2])]

\* C9: after construction and after any sequence of calculations with valid
\* or invalid inputs, the "Save to .txt" button is enabled if and only if
\* last_details holds the complete result of the most recent calculation
\* and that calculation succeeded; a failed calculation clears last_details
\* and disables the button, so no report is written from an error result
\* or from an earlier result.
C9_SaveOnlyCurrentSuccess == []C9_ButtonMatchesLastResult /\ [][C9_ReportIsCurrent]_vars

\* C9 witness: a report was saved from a successful calculation, and a
\* later calculation then failed, which disabled the button.
C9_Witness ==
    /\ report # <<>>
    /\ Has(details, "Error")
    /\ last_details = <<>>
    /\ save_button = "disabled"

====
